---- MODULE Spec2Model ----
(***************************************************************************)
(* A model of the CRITs lookup integration (src/integration.js).           *)
(*                                                                         *)
(* doLookup validates the options, then hands every entity to async.each;  *)
(* the iteratee routes the entity to _lookupIP, _lookupHash or             *)
(* _lookupDomains, each of which issues HTTP GETs through `request` and    *)
(* reports to the iteratee's `next`.  A request completion is one step of  *)
(* the model: the whole continuation that node runs for that response.     *)
(*                                                                         *)
(* JavaScript values that may be null, undefined or of several types are   *)
(* tagged records; strings that are only concatenated are TLA+ strings.    *)
(***************************************************************************)
EXTENDS Integers, Sequences, FiniteSets, TLC

VARIABLES
    invs,           \* the doLookup invocations of this run
    options,        \* options[k]: the options object passed to invocation k
    entities,       \* entities[k]: the entities array passed to invocation k
    remote,         \* what the CRITs server holds, per endpoint
    started,        \* started[k]: doLookup(k) has been called
    lookupResults,  \* lookupResults[k]: the closure array of doLookup (line 70)
    each,           \* each[k]: async.each's bookkeeping for invocation k
    calls,          \* calls[k]: the calls made to the host callback cb, in order
    faults,         \* the ways a request can fail in this run
    reqs,           \* every request issued: key -> [uri, resp]
    par,            \* async.parallel's bookkeeping, per hash entity
    reports         \* per entity looked up: what its lookup passed to its cb, in order

vars ==
    <<invs, options, entities, remote, faults, started, lookupResults, each, calls, reqs, par,
      reports>>

----------------------------------------------------------------------------
(* Bounds of the model. *)

MaxEntities == 2    \* longest entities array of a doLookup call
MaxRecords == 2     \* most records an endpoint returns for one query
MaxOverlapEntities == 1  \* longest entities array of two overlapping doLookup calls

Invs == {1, 2}

----------------------------------------------------------------------------
(* JavaScript values. *)

Null == [type |-> "null", v |-> 0]
Undefined == [type |-> "undefined", v |-> 0]
Str(s) == [type |-> "string", v |-> s]
Num(n) == [type |-> "number", v |-> n]
Arr(items) == [type |-> "array", v |-> items]
Obj(fields) == [type |-> "object", v |-> fields]

IsString(x) == x.type = "string"
IsArray(x) == x.type = "array"

\* JavaScript truthiness of an error value (null, undefined, or a string).
Truthy(x) == x # Null /\ x # Undefined /\ ~(IsString(x) /\ x.v = "")

RECURSIVE IndexOf(_, _, _)
IndexOf(c, s, i) ==
    IF i > Len(s) THEN 0
    ELSE IF SubSeq(s, i, i) = c THEN i ELSE IndexOf(c, s, i + 1)

UpperLetters == "ABCDEFGHIJKLMNOPQRSTUVWXYZ"
LowerLetters == "abcdefghijklmnopqrstuvwxyz"

MapChar(c, from, to) ==
    LET i == IndexOf(c, from, 1) IN IF i = 0 THEN c ELSE SubSeq(to, i, i)

RECURSIVE MapString(_, _, _)
MapString(s, from, to) ==
    IF s = "" THEN ""
    ELSE MapChar(SubSeq(s, 1, 1), from, to) \o MapString(SubSeq(s, 2, Len(s)), from, to)

toLowerCase(s) == MapString(s, UpperLetters, LowerLetters)
toUpperCase(s) == MapString(s, LowerLetters, UpperLetters)

endsWith(s, suffix) ==
    Len(s) >= Len(suffix) /\ SubSeq(s, Len(s) - Len(suffix) + 1, Len(s)) = suffix

\* s.substring(from, to) with 0 <= from <= to <= s.length
substring(s, from, to) == SubSeq(s, from + 1, to)

----------------------------------------------------------------------------
(* URI construction. *)

\* A variant of _getFormattedHostname that keeps the hostname as configured.
_getFormattedHostnameAsIs(opts) == opts.hostname.v

_getFormattedHostname(opts) ==
    LET hostname == opts.hostname.v IN
    IF endsWith(hostname, "/") THEN substring(hostname, 0, Len(hostname) - 1)
    ELSE hostname

_getUriAuthQueryParam(opts) ==
    "&username=" \o opts.username.v \o "&api_key=" \o opts.apiKey.v

_getHashSampleUri(hashType, value, opts) ==
    _getFormattedHostname(opts)
        \o "/api/v1/samples/?only=filename,campaign,description,modified,source&"
        \o "c-" \o toLowerCase(hashType) \o "=" \o toLowerCase(value)
        \o _getUriAuthQueryParam(opts)

_getPatchDescriptionUri(type, objectId, opts) ==
    _getFormattedHostname(opts) \o "/api/v1/" \o type \o "/" \o objectId
        \o _getUriAuthQueryParam(opts)

_getIpUri(value, opts) ==
    _getFormattedHostname(opts) \o "/api/v1/ips/?c-ip=" \o value
        \o _getUriAuthQueryParam(opts)

_getHashUri(hashType, value, opts) ==
    _getFormattedHostname(opts) \o "/api/v1/indicators/?c-type=" \o toUpperCase(hashType)
        \o "&c-lower=" \o toLowerCase(value) \o _getUriAuthQueryParam(opts)

_getCritsHashUrl(opts, object) ==
    _getFormattedHostname(opts) \o "/indicators/details/" \o object._id \o "/"

_getCritsSampleUrl(opts, object) ==
    _getFormattedHostname(opts) \o "/samples/details/" \o object.md5 \o "/"

_getCritsIpUrl(opts, object) ==
    _getFormattedHostname(opts) \o "/ips/details/" \o object.ip \o "/"

_getCritsDomainUri(value, opts) ==
    _getFormattedHostname(opts) \o "/api/v1/domains/?c-domain=" \o value
        \o _getUriAuthQueryParam(opts)

_getCritsDomainUrl(opts, object) ==
    _getFormattedHostname(opts) \o "/domains/details/" \o object.domain \o "/"

----------------------------------------------------------------------------
(* Option validation. *)

\* A variant of _validateOptions that accepts an empty username.
_validateOptionsEmptyUsername(opts) ==
    IF ~IsString(opts.hostname) THEN Str("No hostname set")
    ELSE IF Len(opts.hostname.v) = 0 THEN Str("Hostname must be at least 1 character")
    ELSE IF ~IsString(opts.apiKey) THEN Str("No API key set")
    ELSE IF Len(opts.apiKey.v) = 0 THEN Str("API key must be at least 1 character")
    ELSE IF ~IsString(opts.username) THEN Str("No username set")
    ELSE Null

_validateOptions(opts) ==
    IF ~IsString(opts.hostname) THEN Str("No hostname set")
    ELSE IF Len(opts.hostname.v) = 0 THEN Str("Hostname must be at least 1 character")
    ELSE IF ~IsString(opts.apiKey) THEN Str("No API key set")
    ELSE IF Len(opts.apiKey.v) = 0 THEN Str("API key must be at least 1 character")
    ELSE IF ~IsString(opts.username) THEN Str("No username set")
    ELSE IF Len(opts.username.v) = 0 THEN Str("Username must be at least 1 character")
    ELSE Null

----------------------------------------------------------------------------
(* Error classification. *)

AuthErrorMessage == "Unauthorized to access CRITs. Please check username and API key"
UnknownErrorMessage == "There was an unknown error accessing CRITs"

\* JSON.stringify of a transport error object: its own enumerable fields,
\* undefined ones left out.
JSONStringify(err) ==
    "{"
    \o (IF IsString(err.v.code) THEN "\"code\":\"" \o err.v.code.v \o "\","
        ELSE IF err.v.code.type = "number" THEN "\"code\":" \o ToString(err.v.code.v) \o ","
        ELSE "")
    \o "\"syscall\":\"" \o err.v.syscall \o "\"}"

\* A variant of _getErrorMessage that does not single out status 401.
_getErrorMessageNo401(err, response) ==
    IF err # Null /\ IsString(err.v.code) THEN err.v.code
    ELSE IF err # Null THEN Str(JSONStringify(err))
    ELSE IF response.v.statusCode # 200 THEN Str(UnknownErrorMessage)
    ELSE Null

\* A variant of _getErrorMessage that serializes every transport error,
\* whether or not it carries a string code.
_getErrorMessageSerializeAll(err, response) ==
    IF err # Null THEN Str(JSONStringify(err))
    ELSE IF response.v.statusCode = 401 THEN Str(AuthErrorMessage)
    ELSE IF response.v.statusCode # 200 THEN Str(UnknownErrorMessage)
    ELSE Null

_getErrorMessage(err, response) ==
    IF err # Null /\ IsString(err.v.code) THEN err.v.code
    ELSE IF err # Null THEN Str(JSONStringify(err))
    ELSE IF response.v.statusCode = 401 THEN Str(AuthErrorMessage)
    ELSE IF response.v.statusCode # 200 THEN Str(UnknownErrorMessage)
    ELSE Null

----------------------------------------------------------------------------
(* Tags. *)

_createSourceMarker == " <i class=\"bts bt-fw bt-map-marker integration-text-bold-color\"></i>"
_createCampaignMarkger == " <i class=\"fa fa-fw fa-bullhorn integration-text-bold-color\"></i>"
SampleCountMarker == " <i class=\"fa fa-bug integration-text-bold-color\"></i>"

Min(a, b) == IF a < b THEN a ELSE b

\* A variant of the bucket-list limit of _createTags: two labels more.
MoreBucketTags == 5 + 2

\* The most bucket-list labels _createTags puts in a summary.
MaxBucketTags == 5

_createTags(object) ==
    LET sources ==
            IF IsArray(object.source)
            THEN [i \in 1..Len(object.source.v) |->
                      object.source.v[i].name \o _createSourceMarker]
            ELSE <<>>
        campaigns ==
            IF IsArray(object.campaign)
            THEN [i \in 1..Len(object.campaign.v) |->
                      object.campaign.v[i].name \o _createCampaignMarkger]
            ELSE <<>>
        buckets ==
            IF IsArray(object.bucket_list)
            THEN SubSeq(object.bucket_list.v, 1,
                        Min(Len(object.bucket_list.v), MaxBucketTags))
            ELSE <<>>
    IN sources \o campaigns \o buckets

\* A JavaScript Set, which iterates in insertion order: a sequence without
\* duplicates.
SetAddAgain(set, x) == Append(set, x)

SetAdd(set, x) == IF \E i \in 1..Len(set) : set[i] = x THEN set ELSE Append(set, x)

RECURSIVE SetAddAll(_, _)
SetAddAll(set, xs) ==
    IF xs = <<>> THEN set ELSE SetAddAll(SetAdd(set, Head(xs)), Tail(xs))

\* The field `name` of a hashSamples / hashIndicators entry, as JavaScript
\* reads it: undefined when the entry has no such field.
Field(obj, name) == IF name \in DOMAIN obj THEN obj[name] ELSE Undefined

SourceTagsOf(entry) ==
    LET source == Field(entry, "source") IN
    IF IsArray(source)
    THEN [i \in 1..Len(source.v) |-> source.v[i].name \o _createSourceMarker]
    ELSE <<>>

CampaignTagsOf(entry) ==
    LET campaign == Field(entry, "campaign") IN
    IF IsArray(campaign)
    THEN [i \in 1..Len(campaign.v) |-> campaign.v[i].name \o _createCampaignMarkger]
    ELSE <<>>

BucketTagsOf(entry) ==
    LET bucket_list == Field(entry, "bucket_list") IN
    IF IsArray(bucket_list) THEN bucket_list.v ELSE <<>>

RECURSIVE CollectSources(_, _)
CollectSources(set, entries) ==
    IF entries = <<>> THEN set
    ELSE CollectSources(SetAddAll(set, SourceTagsOf(Head(entries))), Tail(entries))

RECURSIVE CollectCampaigns(_, _)
CollectCampaigns(set, entries) ==
    IF entries = <<>> THEN set
    ELSE CollectCampaigns(SetAddAll(set, CampaignTagsOf(Head(entries))), Tail(entries))

RECURSIVE CollectBuckets(_, _)
CollectBuckets(set, entries) ==
    IF entries = <<>> THEN set
    ELSE CollectBuckets(SetAddAll(set, BucketTagsOf(Head(entries))), Tail(entries))

_createHashTags(details) ==
    LET counts ==
            IF Len(details.hashSamples) >= 1
            THEN <<ToString(Len(details.hashSamples)) \o SampleCountMarker>>
            ELSE <<>>
        all == details.hashSamples \o details.hashIndicators
        uniqueSources == CollectSources(<<>>, all)
        uniqueCampaigns == CollectCampaigns(<<>>, all)
        uniqueBucketLists == CollectBuckets(<<>>, all)
    IN counts \o uniqueSources \o uniqueCampaigns \o uniqueBucketLists

----------------------------------------------------------------------------
(* The three lookups: what each hands to its callback cb(err, results). *)

\* The result for a query that matched no record: one entry with data null,
\* which lets the host cache the miss (_lookupIP; the same in _lookupDomains).
NoMissResults(entityObj) == <<>>

MissResults(entityObj) == <<[entity |-> entityObj, data |-> Null]>>

\* _lookupIP's continuation for a response: the pair (err, results) it passes
\* to cb; results is undefined when it reports an error.
_lookupIP(entityObj, opts, resp) ==
    LET error == _getErrorMessage(resp.err, resp.response) IN
    IF error # Null THEN [err |-> error, results |-> Undefined]
    ELSE
        LET critObjects == resp.body.v.objects IN
        [err |-> Null,
         results |->
            IF Len(critObjects) = 0
            THEN MissResults(entityObj)
            ELSE [i \in 1..Len(critObjects) |->
                    LET object == critObjects[i] IN
                    [entity |-> entityObj,
                     displayValue |-> object.ip,
                     data |-> [
                        summary |-> _createTags(object),
                        details |-> [
                            type |-> "ip",
                            critsLookupUrl |-> _getCritsIpUrl(opts, object),
                            bucketList |-> object.bucket_list,
                            campaign |-> object.campaign,
                            description |-> object.description,
                            modified |-> object.modified,
                            source |-> object.source,
                            threatTypes |-> object.threat_types,
                            patchDescriptionUri |->
                                _getPatchDescriptionUri("ips", object._id, opts)]]]]]

_lookupDomains(entityObj, opts, resp) ==
    LET error == _getErrorMessage(resp.err, resp.response) IN
    IF error # Null THEN [err |-> error, results |-> Undefined]
    ELSE
        LET critObjects == resp.body.v.objects IN
        [err |-> Null,
         results |->
            IF Len(critObjects) = 0
            THEN MissResults(entityObj)
            ELSE [i \in 1..Len(critObjects) |->
                    LET object == critObjects[i] IN
                    [entity |-> entityObj,
                     displayValue |-> object.domain,
                     data |-> [
                        summary |-> _createTags(object),
                        details |-> [
                            type |-> "domain",
                            critsLookupUrl |-> _getCritsDomainUrl(opts, object),
                            bucketList |-> object.bucket_list,
                            campaign |-> object.campaign,
                            description |-> object.description,
                            modified |-> object.modified,
                            source |-> object.source,
                            threatTypes |-> object.threat_types,
                            patchDescriptionUri |->
                                _getPatchDescriptionUri("domains", object._id, opts)]]]]]

\* _processHashResults: the pair (err, value) it passes to parallelCb.
_processHashResults(resp) ==
    LET error == _getErrorMessage(resp.err, resp.response) IN
    IF error # Null THEN [err |-> error, value |-> Undefined]
    ELSE [err |-> Null, value |-> resp.body.v.objects]

HashSampleEntry(opts, critsObject) ==
    [filename |-> critsObject.filename,
     filenames |-> critsObject.filenames,
     critsLookupUrl |-> _getCritsSampleUrl(opts, critsObject),
     bucketList |-> critsObject.bucket_list,
     campaign |-> critsObject.campaign,
     description |-> critsObject.description,
     modified |-> critsObject.modified,
     source |-> critsObject.source,
     patchDescriptionUri |-> _getPatchDescriptionUri("indicator", critsObject._id, opts)]

HashIndicatorEntry(opts, critsObject) ==
    [critsLookupUrl |-> _getCritsHashUrl(opts, critsObject),
     bucketList |-> critsObject.bucket_list,
     campaign |-> critsObject.campaign,
     description |-> critsObject.description,
     modified |-> critsObject.modified,
     source |-> critsObject.source,
     threatTypes |-> critsObject.threat_types,
     patchDescriptionUri |-> _getPatchDescriptionUri("indicator", critsObject._id, opts)]

\* A variant of HashIsMiss: nothing found by either query.
HashIsMissEither(results) ==
    Len(results.hashIndicators) = 0 \/ Len(results.hashSamples) = 0

\* Whether a hash lookup found nothing.
HashIsMiss(results) ==
    Len(results.hashIndicators) = 0 /\ Len(results.hashSamples) = 0

\* The final callback that _lookupHash gives async.parallel: the pair
\* (err, results) it passes to cb.
_lookupHash(entityObj, opts, err, results) ==
    IF Truthy(err) THEN [err |-> err, results |-> Undefined]
    ELSE
        LET details == [
                type |-> "hash",
                hashSamples |->
                    [i \in 1..Len(results.hashSamples) |->
                        HashSampleEntry(opts, results.hashSamples[i])],
                hashIndicators |->
                    [i \in 1..Len(results.hashIndicators) |->
                        HashIndicatorEntry(opts, results.hashIndicators[i])]]
            payload ==
                IF HashIsMiss(results)
                THEN [entity |-> entityObj, data |-> Null]
                ELSE [entity |-> entityObj,
                      data |-> [details |-> details, summary |-> _createHashTags(details)]]
        IN [err |-> Null, results |-> <<payload>>]

----------------------------------------------------------------------------
(* The async library, as doLookup and _lookupHash use it. *)

\* A variant of asyncEachNext whose final callback is not wrapped: it runs
\* for every error.
asyncEachNextNotOnce(d, err) ==
    IF Truthy(err)
    THEN [d |-> [d EXCEPT !.called = TRUE], fire |-> TRUE, err |-> err]
    ELSE LET completed == d.completed + 1 IN
         IF completed = d.length
         THEN [d |-> [d EXCEPT !.completed = completed, !.called = TRUE],
               fire |-> TRUE, err |-> Null]
         ELSE [d |-> [d EXCEPT !.completed = completed], fire |-> FALSE, err |-> Null]

\* async.each's per-item callback `next`, on bookkeeping d = [length,
\* completed, called]: the new bookkeeping and whether the final callback
\* runs now, and with which error.  The final callback is wrapped to run at
\* most once.
asyncEachNext(d, err) ==
    IF Truthy(err)
    THEN [d |-> [d EXCEPT !.called = TRUE], fire |-> ~d.called, err |-> err]
    ELSE LET completed == d.completed + 1 IN
         IF completed = d.length
         THEN [d |-> [d EXCEPT !.completed = completed, !.called = TRUE],
               fire |-> ~d.called, err |-> Null]
         ELSE [d |-> [d EXCEPT !.completed = completed], fire |-> FALSE, err |-> Null]

\* async.each on an array of the given length, before any iteratee has run.
asyncEachStart(length) ==
    IF length = 0
    THEN [d |-> [length |-> 0, completed |-> 0, called |-> TRUE], fire |-> TRUE, err |-> Null]
    ELSE [d |-> [length |-> length, completed |-> 0, called |-> FALSE],
          fire |-> FALSE, err |-> Null]

\* A variant of asyncParallelCb whose final callback is not wrapped to run
\* once: every failing task runs it.
asyncParallelCbNotOnce(p, key, err, value) ==
    LET results == [p.results EXCEPT ![key] = value] IN
    IF Truthy(err)
    THEN [p |-> [p EXCEPT !.results = results, !.called = TRUE],
          fire |-> TRUE, err |-> err]
    ELSE LET completed == p.completed + 1 IN
         IF completed = 2
         THEN [p |-> [results |-> results, completed |-> completed, called |-> TRUE],
               fire |-> ~p.called, err |-> Null]
         ELSE [p |-> [results |-> results, completed |-> completed, called |-> p.called],
               fire |-> FALSE, err |-> Null]

\* A variant of asyncParallelCb that waits for one task more than the two
\* there are.
asyncParallelCbOneMore(p, key, err, value) ==
    LET results == [p.results EXCEPT ![key] = value] IN
    IF Truthy(err)
    THEN [p |-> [p EXCEPT !.results = results, !.called = TRUE],
          fire |-> ~p.called, err |-> err]
    ELSE LET completed == p.completed + 1 IN
         IF completed = 2 + 1
         THEN [p |-> [results |-> results, completed |-> completed, called |-> TRUE],
               fire |-> ~p.called, err |-> Null]
         ELSE [p |-> [results |-> results, completed |-> completed, called |-> p.called],
               fire |-> FALSE, err |-> Null]

\* A variant of asyncParallelCb that files the values of the tasks in the
\* order they arrive: the first under hashIndicators, the second under
\* hashSamples.
asyncParallelCbByArrival(p, key, err, value) ==
    LET slot == IF p.completed = 0 THEN "hashIndicators" ELSE "hashSamples"
        results == [p.results EXCEPT ![slot] = value]
    IN
    IF Truthy(err)
    THEN [p |-> [p EXCEPT !.results = results, !.called = TRUE],
          fire |-> ~p.called, err |-> err]
    ELSE LET completed == p.completed + 1 IN
         IF completed = 2
         THEN [p |-> [results |-> results, completed |-> completed, called |-> TRUE],
               fire |-> ~p.called, err |-> Null]
         ELSE [p |-> [results |-> results, completed |-> completed, called |-> p.called],
               fire |-> FALSE, err |-> Null]

\* async.parallel's per-task callback `parallelCb` for task `key`, on
\* bookkeeping p = [results, completed, called].
asyncParallelCb(p, key, err, value) ==
    LET results == [p.results EXCEPT ![key] = value] IN
    IF Truthy(err)
    THEN [p |-> [p EXCEPT !.results = results, !.called = TRUE],
          fire |-> ~p.called, err |-> err]
    ELSE LET completed == p.completed + 1 IN
         IF completed = 2
         THEN [p |-> [results |-> results, completed |-> completed, called |-> TRUE],
               fire |-> ~p.called, err |-> Null]
         ELSE [p |-> [results |-> results, completed |-> completed, called |-> p.called],
               fire |-> FALSE, err |-> Null]

asyncParallelStart ==
    [results |-> [hashIndicators |-> Undefined, hashSamples |-> Undefined],
     completed |-> 0, called |-> FALSE]

----------------------------------------------------------------------------
(* doLookup. *)

\* A variant of Route that does not consult lookupIps.
RouteAnyIp(entityObj, opts) ==
    IF entityObj.isIP THEN "ip"
    ELSE IF (entityObj.isMD5 \/ entityObj.isSHA1 \/ entityObj.isSHA256) /\ opts.lookupHashes
         THEN "hash"
    ELSE IF entityObj.isDomain /\ opts.lookupDomains THEN "domain"
    ELSE "skip"

\* A variant of Route that tests the domain branch before the hash branch.
RouteDomainBeforeHash(entityObj, opts) ==
    IF entityObj.isIP /\ opts.lookupIps THEN "ip"
    ELSE IF entityObj.isDomain /\ opts.lookupDomains THEN "domain"
    ELSE IF (entityObj.isMD5 \/ entityObj.isSHA1 \/ entityObj.isSHA256) /\ opts.lookupHashes
         THEN "hash"
    ELSE "skip"

\* Which lookup the iteratee starts for an entity.
Route(entityObj, opts) ==
    IF entityObj.isIP /\ opts.lookupIps THEN "ip"
    ELSE IF (entityObj.isMD5 \/ entityObj.isSHA1 \/ entityObj.isSHA256) /\ opts.lookupHashes
         THEN "hash"
    ELSE IF entityObj.isDomain /\ opts.lookupDomains THEN "domain"
    ELSE "skip"

Pending == [type |-> "pending", v |-> 0]

\* The requests a lookup issues for entity i of invocation k: key -> uri.
RequestsOf(k, i, entityObj, opts) ==
    LET route == Route(entityObj, opts) IN
    IF route = "ip" THEN
        {[key |-> <<k, i, "ip">>, uri |-> _getIpUri(entityObj.value, opts)]}
    ELSE IF route = "hash" THEN
        {[key |-> <<k, i, "hashIndicators">>,
          uri |-> _getHashUri(entityObj.hashType, entityObj.value, opts)],
         [key |-> <<k, i, "hashSamples">>,
          uri |-> _getHashSampleUri(entityObj.hashType, entityObj.value, opts)]}
    ELSE IF route = "domain" THEN
        {[key |-> <<k, i, "domain">>, uri |-> _getCritsDomainUri(entityObj.value, opts)]}
    ELSE {}

\* A call to the host callback: cb(err, results), with results an array, or
\* undefined when cb is given the error alone.
HostCall(err, results) == [err |-> err, results |-> results]

\* A variant of IterateeCallback that puts the results of a lookup in front
\* of the array instead of pushing them at its end.
IterateeCallbackUnshift(lr, r) ==
    IF Truthy(r.err) THEN [lookupResults |-> lr, next |-> r.err]
    ELSE [lookupResults |-> r.results \o lr, next |-> Null]

\* The iteratee's callback for a lookup that reported r = (err, results):
\* the new lookupResults array and the argument it gives `next`.
IterateeCallback(lr, r) ==
    IF Truthy(r.err) THEN [lookupResults |-> lr, next |-> r.err]
    ELSE [lookupResults |-> lr \o r.results, next |-> Null]

\* next(null) called n times in a row, as the iteratee does for entities it
\* skips; the final callback can fire at the last of them only.
RECURSIVE SkipAll(_, _)
SkipAll(st, n) ==
    IF n = 0 THEN st
    ELSE LET r == asyncEachNext(st.d, Null) IN
         SkipAll([d |-> r.d, fire |-> st.fire \/ r.fire, err |-> Null], n - 1)

----------------------------------------------------------------------------
(* The inputs: options, entities, and what the server holds and answers. *)

NoFlags ==
    [isIP |-> FALSE, isMD5 |-> FALSE, isSHA1 |-> FALSE, isSHA256 |-> FALSE,
     isDomain |-> FALSE, isURL |-> FALSE, hashType |-> "", value |-> ""]

\* The entity objects the host passes, by what it recognised them as.
EntityTemplates ==
    {[NoFlags EXCEPT !.isIP = TRUE, !.value = "10.0.0.1"],
     [NoFlags EXCEPT !.isMD5 = TRUE, !.hashType = "MD5", !.value = "D41D8CD9"],
     [NoFlags EXCEPT !.isDomain = TRUE, !.value = "evil.example"],
     [NoFlags EXCEPT !.isURL = TRUE, !.value = "http://evil.example/a"],
     [NoFlags EXCEPT !.isIP = TRUE, !.isSHA256 = TRUE, !.isDomain = TRUE,
                     !.hashType = "SHA256", !.value = "Ab12"]}

\* An entity object is one JavaScript object: ref is its identity.
WithRef(template, k, i) ==
    [ref |-> <<k, i>>] @@ template

Batches(k, n) ==
    UNION {{[i \in 1..len |-> WithRef(f[i], k, i)] : f \in [1..len -> EntityTemplates]}
           : len \in 0..n}

Hostnames == {Undefined, Num(8080), Str(""), Str("https://crits.example/"),
              Str("https://crits.example")}
Credentials == {Undefined, Num(7), Str(""), Str("u")}

AllOptions ==
    [hostname : Hostnames, username : Credentials, apiKey : Credentials,
     lookupIps : BOOLEAN, lookupHashes : BOOLEAN, lookupDomains : BOOLEAN]

ValidOptions == {o \in AllOptions : _validateOptions(o) = Null}

\* The records of the CRITs repository: three of them, differing in what
\* is attached (sources, campaigns, bucket list), present or missing.
RecordContents ==
    {[source |-> Arr(<<[name |-> "osint"]>>),
      campaign |-> Arr(<<[name |-> "apt1"]>>),
      bucket_list |-> Arr(<<"rat", "c2", "rat", "dropper", "apt", "phish", "spam">>)],
     [source |-> Arr(<<[name |-> "osint"], [name |-> "vendor"], [name |-> "osint"]>>),
      campaign |-> Undefined,
      bucket_list |-> Arr(<<"c2">>)],
     [source |-> Undefined,
      campaign |-> Arr(<<[name |-> "apt1"], [name |-> "osint"]>>),
      bucket_list |-> Undefined]}

Record(c) ==
    [_id |-> "5a1", ip |-> "10.0.0.1", domain |-> "evil.example", md5 |-> "d41d8cd9",
     filename |-> "a.exe", filenames |-> <<"a.exe">>,
     description |-> "seen", modified |-> "2017-01-01", threat_types |-> <<"malware">>]
    @@ c

RecordLists(n) ==
    UNION {[1..len -> {Record(c) : c \in RecordContents}] : len \in 0..n}

Endpoints == {"ips", "domains", "indicators", "samples"}

\* Two repositories for the runs that exercise the dispatcher.
SomeRecord == Record(CHOOSE c \in RecordContents : c.campaign = Undefined)
PopulatedRemote ==
    [ips |-> <<SomeRecord, SomeRecord>>, domains |-> <<SomeRecord>>,
     indicators |-> <<SomeRecord>>, samples |-> <<>>]
SmallRemotes == {[e \in Endpoints |-> <<>>], PopulatedRemote}

\* The repositories for the runs that exercise one lookup on every answer.
AllRemotes ==
    {[ips |-> l, domains |-> l, indicators |-> l, samples |-> m]
        : l \in RecordLists(MaxRecords), m \in RecordLists(MaxRecords)}

EndpointOf(kind) ==
    CASE kind = "ip" -> "ips"
      [] kind = "domain" -> "domains"
      [] kind = "hashIndicators" -> "indicators"
      [] kind = "hashSamples" -> "samples"

\* A failed request: a transport error (with a string code, or without),
\* or a response with a status other than 200.
TransportError(e) == [err |-> Obj(e), response |-> Undefined, body |-> Undefined]
HttpError(c) == [err |-> Null, response |-> Obj([statusCode |-> c]), body |-> Undefined]

Refused == TransportError([code |-> Str("ECONNREFUSED"), syscall |-> "connect"])
Unauthorized == HttpError(401)

AllFaults ==
    {Refused,
     TransportError([code |-> Undefined, syscall |-> "read"]),
     TransportError([code |-> Num(104), syscall |-> "read"]),
     Unauthorized,
     HttpError(500),
     HttpError(404)}

SomeFaults == {Refused, Unauthorized}

\* What `request` can hand its callback for a request of this kind:
\* (err, response, body).
Responses(kind) ==
    faults \cup {[err |-> Null, response |-> Obj([statusCode |-> 200]),
                  body |-> Obj([objects |-> remote[EndpointOf(kind)]])]}

----------------------------------------------------------------------------
(* Initial states. *)

InitCommon ==
    /\ started = [k \in Invs |-> FALSE]
    /\ lookupResults = [k \in Invs |-> <<>>]
    /\ each = [k \in Invs |-> [length |-> 0, completed |-> 0, called |-> FALSE]]
    /\ calls = [k \in Invs |-> <<>>]
    /\ reqs = <<>>
    /\ par = <<>>
    /\ reports = <<>>

\* One invocation with valid options, on any batch and a small repository.
InitDispatch ==
    /\ invs = {1}
    /\ \E o \in ValidOptions :
        /\ endsWith(o.hostname.v, "/")
        /\ options = [k \in Invs |-> o]
    /\ \E b \in Batches(1, MaxEntities) : entities = [k \in Invs |-> IF k = 1 THEN b ELSE <<>>]
    /\ remote \in SmallRemotes
    /\ faults = SomeFaults
    /\ InitCommon

\* One invocation with invalid options, every lookup enabled, on any batch.
InitInvalid ==
    /\ invs = {1}
    /\ \E o \in AllOptions \ ValidOptions :
        /\ o.lookupIps /\ o.lookupHashes /\ o.lookupDomains
        /\ options = [k \in Invs |-> o]
    /\ \E b \in Batches(1, MaxEntities) : entities = [k \in Invs |-> IF k = 1 THEN b ELSE <<>>]
    /\ remote = PopulatedRemote
    /\ faults = SomeFaults
    /\ InitCommon

\* One invocation on one entity, every lookup enabled, any repository.
InitData ==
    /\ invs = {1}
    /\ \E o \in ValidOptions :
        /\ o.lookupIps /\ o.lookupHashes /\ o.lookupDomains
        /\ options = [k \in Invs |-> o]
    /\ \E b \in Batches(1, 1) : entities = [k \in Invs |-> IF k = 1 THEN b ELSE <<>>]
    /\ remote \in AllRemotes
    /\ faults = SomeFaults
    /\ InitCommon

\* One invocation on one entity, every lookup enabled, any failure.
InitFaults ==
    /\ invs = {1}
    /\ \E o \in ValidOptions :
        /\ o.lookupIps /\ o.lookupHashes /\ o.lookupDomains
        /\ options = [k \in Invs |-> o]
    /\ \E b \in Batches(1, 1) : entities = [k \in Invs |-> IF k = 1 THEN b ELSE <<>>]
    /\ remote \in SmallRemotes
    /\ faults = AllFaults
    /\ InitCommon

Init == InitDispatch \/ InitInvalid \/ InitData \/ InitFaults

----------------------------------------------------------------------------
(* Actions. *)

\* doLookup(entities[k], options[k], cb), up to its return.
DoLookup(k) ==
    /\ k \in invs
    /\ ~started[k]
    /\ started' = [started EXCEPT ![k] = TRUE]
    /\ LET opts == options[k]
           validationResult == _validateOptions(opts)
       IN
       IF validationResult # Null
       THEN /\ calls' = [calls EXCEPT ![k] = Append(@, HostCall(validationResult, Undefined))]
            /\ UNCHANGED <<lookupResults, each, reqs, par, reports>>
       ELSE LET ents == entities[k]
                issued == UNION {RequestsOf(k, i, ents[i], opts) : i \in 1..Len(ents)}
                hashes == {i \in 1..Len(ents) : Route(ents[i], opts) = "hash"}
                skipped == {i \in 1..Len(ents) : Route(ents[i], opts) = "skip"}
                looked == {<<k, i>> : i \in (1..Len(ents)) \ skipped}
                st == SkipAll(asyncEachStart(Len(ents)), Cardinality(skipped))
            IN
            /\ reqs' = [key \in DOMAIN reqs \cup {r.key : r \in issued} |->
                          IF key \in DOMAIN reqs THEN reqs[key]
                          ELSE [uri |-> (CHOOSE r \in issued : r.key = key).uri,
                                resp |-> Pending]]
            /\ par' = [key \in DOMAIN par \cup {<<k, i>> : i \in hashes} |->
                          IF key \in DOMAIN par THEN par[key] ELSE asyncParallelStart]
            /\ reports' = [key \in DOMAIN reports \cup looked |->
                              IF key \in DOMAIN reports THEN reports[key] ELSE <<>>]
            /\ each' = [each EXCEPT ![k] = st.d]
            /\ calls' = [calls EXCEPT ![k] =
                            IF st.fire THEN Append(@, HostCall(st.err, Arr(lookupResults[k])))
                            ELSE @]
            /\ UNCHANGED lookupResults
    /\ UNCHANGED <<invs, options, entities, remote, faults>>

\* What a lookup passed to its cb: the error, and the results array if any.
Reported(r) ==
    [err |-> r.err, results |-> IF Truthy(r.err) THEN Undefined ELSE Arr(r.results)]

\* A variant of Report in which lookupResults is one array of the module,
\* shared by the invocations, instead of a local of doLookup.
ReportShared(k, i, r) ==
    LET it == IterateeCallback(lookupResults[k], r)
        n == asyncEachNext(each[k], it.next)
    IN
    /\ reports' = [reports EXCEPT ![<<k, i>>] = Append(@, Reported(r))]
    /\ lookupResults' = [j \in Invs |-> it.lookupResults]
    /\ each' = [each EXCEPT ![k] = n.d]
    /\ calls' = [calls EXCEPT ![k] =
                    IF n.fire THEN Append(@, HostCall(n.err, Arr(it.lookupResults))) ELSE @]

\* The lookup of entity i of invocation k reports r = (err, results) to the
\* iteratee's callback, which pushes the results and calls next.
Report(k, i, r) ==
    LET it == IterateeCallback(lookupResults[k], r)
        n == asyncEachNext(each[k], it.next)
    IN
    /\ reports' = [reports EXCEPT ![<<k, i>>] = Append(@, Reported(r))]
    /\ lookupResults' = [lookupResults EXCEPT ![k] = it.lookupResults]
    /\ each' = [each EXCEPT ![k] = n.d]
    /\ calls' = [calls EXCEPT ![k] =
                    IF n.fire THEN Append(@, HostCall(n.err, Arr(it.lookupResults))) ELSE @]

\* A variant of IsPending in which the requests in flight are dropped once
\* the final callback of async.each has run.
IsPendingUnlessCalled(key) ==
    key \in DOMAIN reqs /\ reqs[key].resp = Pending /\ ~each[key[1]].called

IsPending(key) == key \in DOMAIN reqs /\ reqs[key].resp = Pending

\* The response of the IP request of entity i arrives.
CompleteIP(k, i) ==
    /\ IsPending(<<k, i, "ip">>)
    /\ \E resp \in Responses("ip") :
        /\ reqs' = [reqs EXCEPT ![<<k, i, "ip">>].resp = resp]
        /\ Report(k, i, _lookupIP(entities[k][i], options[k], resp))
    /\ UNCHANGED <<invs, options, entities, remote, faults, started, par>>

\* The response of the domain request of entity i arrives.
CompleteDomain(k, i) ==
    /\ IsPending(<<k, i, "domain">>)
    /\ \E resp \in Responses("domain") :
        /\ reqs' = [reqs EXCEPT ![<<k, i, "domain">>].resp = resp]
        /\ Report(k, i, _lookupDomains(entities[k][i], options[k], resp))
    /\ UNCHANGED <<invs, options, entities, remote, faults, started, par>>

\* The response of one of the two requests of a hash lookup arrives.
CompleteHash(k, i, key) ==
    /\ IsPending(<<k, i, key>>)
    /\ \E resp \in Responses(key) :
        LET t == _processHashResults(resp)
            n == asyncParallelCb(par[<<k, i>>], key, t.err, t.value)
        IN
        /\ reqs' = [reqs EXCEPT ![<<k, i, key>>].resp = resp]
        /\ par' = [par EXCEPT ![<<k, i>>] = n.p]
        /\ IF n.fire
           THEN Report(k, i, _lookupHash(entities[k][i], options[k], n.err, n.p.results))
           ELSE UNCHANGED <<lookupResults, each, calls, reports>>
    /\ UNCHANGED <<invs, options, entities, remote, faults, started>>

CompleteHashIndicators(k, i) == CompleteHash(k, i, "hashIndicators")
CompleteHashSamples(k, i) == CompleteHash(k, i, "hashSamples")

Next ==
    \/ \E k \in Invs : DoLookup(k)
    \/ \E k \in Invs, i \in 1..(MaxEntities + 1) : CompleteIP(k, i)
    \/ \E k \in Invs, i \in 1..(MaxEntities + 1) : CompleteDomain(k, i)
    \/ \E k \in Invs, i \in 1..(MaxEntities + 1) : CompleteHashIndicators(k, i)
    \/ \E k \in Invs, i \in 1..(MaxEntities + 1) : CompleteHashSamples(k, i)

Spec == Init /\ [][Next]_vars

\* The response of some request in flight arrives.
Complete ==
    \E k \in Invs, i \in 1..(MaxEntities + 1) :
        \/ CompleteIP(k, i)
        \/ CompleteDomain(k, i)
        \/ CompleteHashIndicators(k, i)
        \/ CompleteHashSamples(k, i)

\* Every request that has been issued is answered in the end: the callback
\* that `request` was given runs, with an error or with a response.
RequestsComplete == WF_vars(Complete)

\* One invocation with valid options, every lookup enabled, on any batch,
\* with a populated repository and one way for a request to fail.
InitFair ==
    /\ invs = {1}
    /\ \E o \in ValidOptions :
        /\ endsWith(o.hostname.v, "/")
        /\ o.lookupIps /\ o.lookupHashes /\ o.lookupDomains
        /\ options = [k \in Invs |-> o]
    /\ \E b \in Batches(1, MaxEntities) : entities = [k \in Invs |-> IF k = 1 THEN b ELSE <<>>]
    /\ remote = PopulatedRemote
    /\ faults = {Refused}
    /\ InitCommon

FairSpec == InitFair /\ [][Next]_vars /\ RequestsComplete

\* Two invocations that overlap: the first with valid options, the second
\* with valid or invalid ones, each on its own batch.
InitTwo ==
    /\ invs = {1, 2}
    /\ \E o \in ValidOptions, p \in AllOptions :
        /\ endsWith(o.hostname.v, "/")
        /\ o.lookupIps /\ o.lookupHashes /\ o.lookupDomains
        /\ p = o \/ p = [o EXCEPT !.apiKey = Undefined]
        /\ options = [k \in Invs |-> IF k = 1 THEN o ELSE p]
    /\ \E a \in Batches(1, MaxOverlapEntities), b \in Batches(2, MaxOverlapEntities) :
        entities = [k \in Invs |-> IF k = 1 THEN a ELSE b]
    /\ remote = PopulatedRemote
    /\ faults = {Refused}
    /\ InitCommon

SpecTwo == InitTwo /\ [][Next]_vars

----------------------------------------------------------------------------
(* Vocabulary of the properties. *)

ReqsOf(k) == {key \in DOMAIN reqs : key[1] = k}
ReqsOfEntity(k, i) == {key \in DOMAIN reqs : key[1] = k /\ key[2] = i}

IsDone(key) == reqs[key].resp # Pending

\* A completed request failed: a transport error, or a status other than 200.
IsFailure(resp) ==
    /\ resp # Pending
    /\ (resp.err # Null \/ resp.response.v.statusCode # 200)

IsSuccess(resp) == resp # Pending /\ ~IsFailure(resp)

Is401(resp) ==
    /\ resp # Pending
    /\ resp.err = Null
    /\ resp.response.v.statusCode = 401

FailedReqs(k) == {key \in ReqsOf(k) : IsFailure(reqs[key].resp)}
SucceededReqs(k) == {key \in ReqsOf(k) : IsSuccess(reqs[key].resp)}

\* The entries of lookupResults[k] whose entity is entity i of the batch.
EntriesFor(k, i) == SelectSeq(lookupResults[k], LAMBDA e : e.entity.ref = <<k, i>>)

----------------------------------------------------------------------------
(* C1 *)

\* C1: whenever the host callback receives a non-null error, the results
\* argument delivered with it is absent or empty: the entries of the lookups
\* that succeeded before the failing one are not delivered with the error.
C1_ErrorWithoutPartialResults ==
    \A k \in invs : \A j \in 1..Len(calls[k]) :
        calls[k][j].err # Null =>
            (calls[k][j].results = Undefined \/ calls[k][j].results = Arr(<<>>))

----------------------------------------------------------------------------
(* C2 *)

\* C2: the host callback of an invocation is invoked at most once, whatever
\* the interleaving of completions, however many requests fail.
C2_CallbackAtMostOnce ==
    \A k \in invs : Len(calls[k]) <= 1

\* Both sub-queries of a hash lookup have failed, a request of another
\* entity has completed too, and the callback has run.
C2_Witness ==
    \E k \in invs : \E i \in 1..Len(entities[k]) :
        /\ <<k, i, "hashIndicators">> \in FailedReqs(k)
        /\ <<k, i, "hashSamples">> \in FailedReqs(k)
        /\ \E key \in ReqsOf(k) : key[2] # i /\ IsDone(key)
        /\ Len(calls[k]) = 1

----------------------------------------------------------------------------
(* C3 *)

IsMissing(x) == ~IsString(x) \/ x.v = ""

HasInvalidConfiguration(opts) ==
    IsMissing(opts.hostname) \/ IsMissing(opts.username) \/ IsMissing(opts.apiKey)

\* The configuration errors that name a field of opts that is indeed
\* missing, not a string, or empty.
ConfigurationErrorsOf(opts) ==
    (IF ~IsString(opts.hostname) THEN {"No hostname set"}
     ELSE IF opts.hostname.v = "" THEN {"Hostname must be at least 1 character"} ELSE {})
    \cup
    (IF ~IsString(opts.username) THEN {"No username set"}
     ELSE IF opts.username.v = "" THEN {"Username must be at least 1 character"} ELSE {})
    \cup
    (IF ~IsString(opts.apiKey) THEN {"No API key set"}
     ELSE IF opts.apiKey.v = "" THEN {"API key must be at least 1 character"} ELSE {})

\* C3: with hostname, username or apiKey missing, not a string or empty,
\* lookup delivers a configuration error about such a field to the callback,
\* and no request is ever issued.
C3_InvalidConfigurationNoRequests ==
    \A k \in invs :
        (started[k] /\ HasInvalidConfiguration(options[k])) =>
            /\ Len(calls[k]) = 1
            /\ IsString(calls[k][1].err)
            /\ calls[k][1].err.v \in ConfigurationErrorsOf(options[k])
            /\ ReqsOf(k) = {}
            /\ lookupResults[k] = <<>>

\* lookup has returned for a configuration whose only flaw is an empty
\* username, on a batch that would otherwise have started lookups.
C3_Witness ==
    \E k \in invs :
        /\ started[k]
        /\ options[k].username = Str("")
        /\ ~IsMissing(options[k].hostname) /\ ~IsMissing(options[k].apiKey)
        /\ \E i \in 1..Len(entities[k]) : entities[k][i].isIP /\ options[k].lookupIps
        /\ Len(calls[k]) = 1

----------------------------------------------------------------------------
(* C4 *)

\* C4 as stated: if any request of the batch completed with status 401 and
\* no transport error, the callback has received the authorization error.
C4_Any401DeliversAuthError ==
    \A k \in invs :
        (\E key \in ReqsOf(k) : Is401(reqs[key].resp)) =>
            /\ Len(calls[k]) >= 1
            /\ calls[k][1].err = Str(AuthErrorMessage)

\* C4, amended: when a request completes with status 401 and no transport
\* error, and no request of the batch has failed before it, the step that
\* processes it aborts the batch: it calls the host callback, for the first
\* and only time, with the authorization error, however many other requests
\* have succeeded or are still in flight.
C4_First401DeliversAuthError ==
    [][\A k \in invs : \A key \in ReqsOf(k) :
          (/\ ~IsDone(key)
           /\ Is401(reqs'[key].resp)
           /\ FailedReqs(k) = {})
          => (/\ calls[k] = <<>>
              /\ Len(calls'[k]) = 1
              /\ calls'[k][1].err = Str(AuthErrorMessage))]_vars

\* One request got a 401, another had succeeded, a third is still in
\* flight, and the callback has the authorization error.
C4_Witness ==
    \E k \in invs :
        /\ \E key \in ReqsOf(k) : FailedReqs(k) = {key} /\ Is401(reqs[key].resp)
        /\ SucceededReqs(k) # {}
        /\ \E key \in ReqsOf(k) : ~IsDone(key)
        /\ Len(calls[k]) = 1
        /\ calls[k][1].err = Str(AuthErrorMessage)

----------------------------------------------------------------------------
(* C5 *)

Applicable(e, o) ==
    \/ e.isIP /\ o.lookupIps
    \/ (e.isMD5 \/ e.isSHA1 \/ e.isSHA256) /\ o.lookupHashes
    \/ e.isDomain /\ o.lookupDomains

\* C5: an indicator whose type flags match no enabled option has no request
\* issued for it and no entry in the result list, and causes no error: an
\* error reaches the callback only if a request of another indicator failed,
\* and a batch of such indicators alone completes with no error and an
\* empty list.
C5_InapplicableIndicatorIgnored ==
    \A k \in invs :
        (started[k] /\ ~HasInvalidConfiguration(options[k])) =>
            /\ \A i \in 1..Len(entities[k]) :
                ~Applicable(entities[k][i], options[k]) =>
                    /\ ReqsOfEntity(k, i) = {}
                    /\ EntriesFor(k, i) = <<>>
            /\ \A j \in 1..Len(calls[k]) :
                calls[k][j].err # Null => FailedReqs(k) # {}
            /\ (\A i \in 1..Len(entities[k]) : ~Applicable(entities[k][i], options[k]))
                => calls[k] = <<HostCall(Null, Arr(<<>>))>>

\* An IP indicator with lookupIps off and no other matching option sits in
\* a batch whose other indicator was looked up, and the batch has completed
\* without error.
C5_Witness ==
    \E k \in invs : \E i, j \in 1..Len(entities[k]) :
        /\ started[k]
        /\ entities[k][i].isIP /\ ~Applicable(entities[k][i], options[k])
        /\ Applicable(entities[k][j], options[k])
        /\ Len(calls[k]) = 1 /\ calls[k][1].err = Null
        /\ Len(lookupResults[k]) >= 1

----------------------------------------------------------------------------
(* C6 *)

ObjectsOf(key) == reqs[key].resp.body.v.objects

AllDone(k) == \A key \in ReqsOf(k) : IsDone(key)

\* C6: an IP or domain request that succeeds with status 200 and zero
\* records puts exactly one entry for its indicator in the result list,
\* with data = null, and reports no error: if no request of the batch
\* fails, the callback receives a null error and the list.
C6_ZeroRecordsOneNullEntry ==
    \A k \in invs : \A key \in ReqsOf(k) :
        (/\ key[3] \in {"ip", "domain"}
         /\ IsSuccess(reqs[key].resp)
         /\ ObjectsOf(key) = <<>>)
        => LET es == EntriesFor(k, key[2]) IN
           /\ Len(es) = 1
           /\ es[1].data = Null
           /\ es[1].entity = entities[k][key[2]]
           /\ (FailedReqs(k) = {} /\ AllDone(k))
                => calls[k] = <<HostCall(Null, Arr(lookupResults[k]))>>

\* An IP lookup and a domain lookup of one batch both found nothing, and
\* the callback received the two null entries.
C6_Witness ==
    \E k \in invs : \E i, j \in 1..Len(entities[k]) :
        /\ <<k, i, "ip">> \in SucceededReqs(k) /\ ObjectsOf(<<k, i, "ip">>) = <<>>
        /\ <<k, j, "domain">> \in SucceededReqs(k) /\ ObjectsOf(<<k, j, "domain">>) = <<>>
        /\ Len(calls[k]) = 1
        /\ calls[k][1].err = Null
        /\ Len(calls[k][1].results.v) = 2

----------------------------------------------------------------------------
(* C7 *)

\* Both sub-queries of the hash lookup of entity i have succeeded.
HashSucceeded(k, i) ==
    /\ <<k, i, "hashIndicators">> \in SucceededReqs(k)
    /\ <<k, i, "hashSamples">> \in SucceededReqs(k)

\* C7: a successful hash lookup emits exactly one entry for its indicator;
\* its data is null exactly when both searches returned zero records, and
\* otherwise it holds one hashSamples entry per sample record and one
\* hashIndicators entry per indicator record, in the records' order.
C7_HashOneMergedEntry ==
    \A k \in invs : \A i \in 1..Len(entities[k]) :
        HashSucceeded(k, i) =>
            LET es == EntriesFor(k, i)
                samples == ObjectsOf(<<k, i, "hashSamples">>)
                indicators == ObjectsOf(<<k, i, "hashIndicators">>)
            IN
            /\ Len(es) = 1
            /\ es[1].entity = entities[k][i]
            /\ (es[1].data = Null) <=> (Len(samples) = 0 /\ Len(indicators) = 0)
            /\ es[1].data # Null =>
                LET details == es[1].data.details IN
                /\ details.type = "hash"
                /\ Len(details.hashSamples) = Len(samples)
                /\ Len(details.hashIndicators) = Len(indicators)
                /\ \A j \in 1..Len(samples) :
                    /\ details.hashSamples[j].filename = samples[j].filename
                    /\ details.hashSamples[j].source = samples[j].source
                    /\ details.hashSamples[j].campaign = samples[j].campaign
                    /\ details.hashSamples[j].bucketList = samples[j].bucket_list
                /\ \A j \in 1..Len(indicators) :
                    /\ details.hashIndicators[j].threatTypes = indicators[j].threat_types
                    /\ details.hashIndicators[j].source = indicators[j].source
                    /\ details.hashIndicators[j].campaign = indicators[j].campaign
                    /\ details.hashIndicators[j].bucketList = indicators[j].bucket_list

\* A hash lookup whose sample search found two records and whose indicator
\* search found none has emitted its single merged entry.
C7_Witness ==
    \E k \in invs : \E i \in 1..Len(entities[k]) :
        /\ HashSucceeded(k, i)
        /\ Len(ObjectsOf(<<k, i, "hashSamples">>)) = 2
        /\ Len(ObjectsOf(<<k, i, "hashIndicators">>)) = 0
        /\ Len(lookupResults[k]) = 1
        /\ lookupResults[k][1].data # Null

----------------------------------------------------------------------------
(* C8 *)

ItemsOf(x) == IF IsArray(x) THEN x.v ELSE <<>>

\* summary is the record's source tags, then its campaign tags, then its
\* first five bucket-list labels, nothing else, duplicates kept.
IsSingleRecordSummary(summary, object) ==
    LET sources == ItemsOf(object.source)
        campaigns == ItemsOf(object.campaign)
        labels == ItemsOf(object.bucket_list)
        ns == Len(sources)
        nc == Len(campaigns)
        nb == IF Len(labels) > 5 THEN 5 ELSE Len(labels)
    IN
    /\ Len(summary) = ns + nc + nb
    /\ \A j \in 1..ns : summary[j] = sources[j].name \o _createSourceMarker
    /\ \A j \in 1..nc : summary[ns + j] = campaigns[j].name \o _createCampaignMarkger
    /\ \A j \in 1..nb : summary[ns + nc + j] = labels[j]

\* C8: an IP request that succeeds with N > 0 records puts exactly N
\* entries for its indicator in the result list, one per record in order,
\* and each summary is that record's source tags, campaign tags and at most
\* its first 5 bucket-list labels, duplicates kept.
C8_IpOneEntryPerRecord ==
    \A k \in invs : \A key \in ReqsOf(k) :
        (/\ key[3] = "ip"
         /\ IsSuccess(reqs[key].resp)
         /\ Len(ObjectsOf(key)) > 0)
        => LET es == EntriesFor(k, key[2])
               objects == ObjectsOf(key)
           IN
           /\ Len(es) = Len(objects)
           /\ \A j \in 1..Len(objects) :
                /\ es[j].entity = entities[k][key[2]]
                /\ es[j].displayValue = objects[j].ip
                /\ es[j].data # Null
                /\ es[j].data.details.type = "ip"
                /\ IsSingleRecordSummary(es[j].data.summary, objects[j])

\* An IP lookup returned two records, one of them with more than five
\* bucket-list labels and a repeated label among the first five; its
\* summary keeps the repetition and stops at five labels.
C8_Witness ==
    \E k \in invs : \E key \in ReqsOf(k) :
        /\ key[3] = "ip"
        /\ IsSuccess(reqs[key].resp)
        /\ Len(ObjectsOf(key)) = 2
        /\ Len(lookupResults[k]) = 2
        /\ \E j \in 1..2 :
            LET labels == ItemsOf(ObjectsOf(key)[j].bucket_list)
                summary == lookupResults[k][j].data.summary
            IN
            /\ Len(labels) > 5
            /\ \E a, b \in 1..5 : a # b /\ labels[a] = labels[b]
            /\ Len(summary) = 7
            /\ summary[3] = summary[5]

----------------------------------------------------------------------------
(* C9 *)

\* seq without the repetitions of its elements, in first-seen order.
RECURSIVE Distinct(_)
Distinct(seq) ==
    IF seq = <<>> THEN <<>>
    ELSE LET front == Distinct(SubSeq(seq, 1, Len(seq) - 1))
             last == seq[Len(seq)]
         IN IF \E j \in 1..Len(front) : front[j] = last THEN front ELSE Append(front, last)

RECURSIVE Flatten(_)
Flatten(seqs) == IF seqs = <<>> THEN <<>> ELSE Head(seqs) \o Flatten(Tail(seqs))

SourceNames(object) ==
    [j \in 1..Len(ItemsOf(object.source)) |-> ItemsOf(object.source)[j].name]
CampaignNames(object) ==
    [j \in 1..Len(ItemsOf(object.campaign)) |-> ItemsOf(object.campaign)[j].name]

\* The merged tag list of the records matched by a hash lookup.
MergedTagList(samples, indicators) ==
    LET matched == samples \o indicators
        sourceTags == Flatten([j \in 1..Len(matched) |->
            [n \in 1..Len(SourceNames(matched[j])) |->
                SourceNames(matched[j])[n] \o _createSourceMarker]])
        campaignTags == Flatten([j \in 1..Len(matched) |->
            [n \in 1..Len(CampaignNames(matched[j])) |->
                CampaignNames(matched[j])[n] \o _createCampaignMarkger]])
        labels == Flatten([j \in 1..Len(matched) |-> ItemsOf(matched[j].bucket_list)])
    IN (IF Len(samples) >= 1 THEN <<ToString(Len(samples)) \o SampleCountMarker>> ELSE <<>>)
       \o Distinct(sourceTags) \o Distinct(campaignTags) \o Distinct(labels)

\* C9: the summary of a hash lookup with at least one matched record is
\* the merged tag list: the sample-count tag if there is a sample, then the
\* distinct source tags, the distinct campaign tags and the distinct
\* bucket-list labels of the matched sample and indicator records, each
\* group in first-seen order; every bucket-list label of a matched record
\* is in the summary.
C9_HashSummaryIsMergedTagList ==
    \A k \in invs : \A i \in 1..Len(entities[k]) :
        (/\ HashSucceeded(k, i)
         /\ Len(ObjectsOf(<<k, i, "hashSamples">>))
              + Len(ObjectsOf(<<k, i, "hashIndicators">>)) > 0)
        => LET summary == EntriesFor(k, i)[1].data.summary
               samples == ObjectsOf(<<k, i, "hashSamples">>)
               indicators == ObjectsOf(<<k, i, "hashIndicators">>)
           IN
           /\ summary = MergedTagList(samples, indicators)
           /\ \A j \in 1..Len(samples \o indicators) :
                LET labels == ItemsOf((samples \o indicators)[j].bucket_list) IN
                \A n \in 1..Len(labels) : \E m \in 1..Len(summary) : summary[m] = labels[n]

----------------------------------------------------------------------------
(* C10 *)

Count(seq, x) == Cardinality({j \in 1..Len(seq) : seq[j] = x})

\* C10: in the summary of a hash lookup, the source tag of every source
\* name attached to a matched record appears exactly once, however many
\* sample and indicator records carry that name.
C10_HashSourceTagOnce ==
    \A k \in invs : \A i \in 1..Len(entities[k]) :
        (/\ HashSucceeded(k, i)
         /\ Len(ObjectsOf(<<k, i, "hashSamples">>))
              + Len(ObjectsOf(<<k, i, "hashIndicators">>)) > 0)
        => LET summary == EntriesFor(k, i)[1].data.summary
               matched == ObjectsOf(<<k, i, "hashSamples">>)
                            \o ObjectsOf(<<k, i, "hashIndicators">>)
           IN \A j \in 1..Len(matched) : \A n \in 1..Len(SourceNames(matched[j])) :
                Count(summary, SourceNames(matched[j])[n] \o _createSourceMarker) = 1

\* A hash lookup matched two sample records and an indicator record that
\* all carry one source name, and has emitted its summary.
C10_Witness ==
    \E k \in invs : \E i \in 1..Len(entities[k]) :
        /\ HashSucceeded(k, i)
        /\ LET samples == ObjectsOf(<<k, i, "hashSamples">>)
               indicators == ObjectsOf(<<k, i, "hashIndicators">>)
           IN /\ Len(samples) = 2
              /\ Len(indicators) >= 1
              /\ \E name \in {"osint"} :
                    /\ \A j \in 1..2 : \E n \in 1..Len(SourceNames(samples[j])) :
                          SourceNames(samples[j])[n] = name
                    /\ \E n \in 1..Len(SourceNames(indicators[1])) :
                          SourceNames(indicators[1])[n] = name
                    /\ Count(EntriesFor(k, i)[1].data.summary,
                             name \o _createSourceMarker) = 1

----------------------------------------------------------------------------
(* C11 *)

\* The error a raw response stands for, by the precedence of the claim.
Classification(resp) ==
    IF resp.err # Null /\ IsString(resp.err.v.code) THEN resp.err.v.code
    ELSE IF resp.err # Null THEN Str(JSONStringify(resp.err))
    ELSE IF resp.response.v.statusCode = 401 THEN Str(AuthErrorMessage)
    ELSE IF resp.response.v.statusCode # 200 THEN Str(UnknownErrorMessage)
    ELSE Null

FailedOfEntity(k, i) == {key \in ReqsOfEntity(k, i) : IsFailure(reqs[key].resp)}

\* C11: every request of every lookup (the IP request, the domain request
\* and both requests of a hash lookup) is classified by one precedence: a
\* transport error with a string code is that code, any other transport
\* error is its serialized form, else status 401 is the authorization
\* message, else a status other than 200 is the unknown-error message, and
\* a 200 without transport error is no error, whatever the number of
\* records.  The lookup reports the classification of a failed request of
\* its own, and reports no error when all its requests were answered 200.
C11_ClassificationPrecedence ==
    \A e \in DOMAIN reports :
        LET failed == FailedOfEntity(e[1], e[2])
            all == ReqsOfEntity(e[1], e[2])
        IN
        /\ \A key \in all :
              IsSuccess(reqs[key].resp) <=>
                  (IsDone(key) /\ Classification(reqs[key].resp) = Null)
        /\ failed # {} =>
              /\ Len(reports[e]) = 1
              /\ reports[e][1].results = Undefined
              /\ \E key \in failed : reports[e][1].err = Classification(reqs[key].resp)
        /\ (failed = {} /\ \A key \in all : IsDone(key)) =>
              /\ Len(reports[e]) = 1
              /\ reports[e][1].err = Null
        /\ (failed = {} /\ \E key \in all : ~IsDone(key)) => reports[e] = <<>>

\* A hash lookup whose sample query met a transport error with a numeric
\* code, while its indicator query was answered 200, has reported the
\* serialized error.
C11_Witness ==
    \E e \in DOMAIN reports :
        /\ <<e[1], e[2], "hashSamples">> \in DOMAIN reqs
        /\ reqs[<<e[1], e[2], "hashSamples">>].resp =
              TransportError([code |-> Num(104), syscall |-> "read"])
        /\ IsSuccess(reqs[<<e[1], e[2], "hashIndicators">>].resp)
        /\ Len(reports[e]) = 1
        /\ reports[e][1].err = Str("{\"code\":104,\"syscall\":\"read\"}")

----------------------------------------------------------------------------
(* C12 *)

\* The options that differ from opts in the trailing slash of the hostname
\* only: h for h/, and h/ for h.
Twin(opts) ==
    LET h == opts.hostname.v IN
    [opts EXCEPT !.hostname =
        Str(IF endsWith(h, "/") THEN SubSeq(h, 1, Len(h) - 1) ELSE h \o "/")]

\* The entries with data that the lookup of entity i has pushed.
HitsFor(k, i) == SelectSeq(EntriesFor(k, i), LAMBDA e : e.data # Null)

\* The URIs of the requests of invocation k are those the builders give
\* for the twin of its options.
RequestUrisOfTwin(k) ==
    LET t == Twin(options[k]) IN
    \A key \in ReqsOf(k) :
        LET entityObj == entities[k][key[2]] IN
        reqs[key].uri =
            CASE key[3] = "ip" -> _getIpUri(entityObj.value, t)
              [] key[3] = "domain" -> _getCritsDomainUri(entityObj.value, t)
              [] key[3] = "hashIndicators" ->
                    _getHashUri(entityObj.hashType, entityObj.value, t)
              [] key[3] = "hashSamples" ->
                    _getHashSampleUri(entityObj.hashType, entityObj.value, t)

\* The URIs in the entries of entity i of invocation k are those the
\* builders give for the twin of its options.
EntryUrisOfTwin(k, i) ==
    LET t == Twin(options[k])
        hits == HitsFor(k, i)
    IN
    /\ <<k, i, "ip">> \in DOMAIN reqs =>
          \A j \in 1..Len(hits) :
              /\ hits[j].data.details.critsLookupUrl = _getCritsIpUrl(t, remote.ips[j])
              /\ hits[j].data.details.patchDescriptionUri =
                    _getPatchDescriptionUri("ips", remote.ips[j]._id, t)
    /\ <<k, i, "domain">> \in DOMAIN reqs =>
          \A j \in 1..Len(hits) :
              /\ hits[j].data.details.critsLookupUrl =
                    _getCritsDomainUrl(t, remote.domains[j])
              /\ hits[j].data.details.patchDescriptionUri =
                    _getPatchDescriptionUri("domains", remote.domains[j]._id, t)
    /\ <<k, i, "hashIndicators">> \in DOMAIN reqs =>
          \A j \in 1..Len(hits) :
              LET details == hits[j].data.details IN
              /\ \A n \in 1..Len(details.hashIndicators) :
                    /\ details.hashIndicators[n].critsLookupUrl =
                          _getCritsHashUrl(t, remote.indicators[n])
                    /\ details.hashIndicators[n].patchDescriptionUri =
                          _getPatchDescriptionUri("indicator", remote.indicators[n]._id, t)
              /\ \A n \in 1..Len(details.hashSamples) :
                    /\ details.hashSamples[n].critsLookupUrl =
                          _getCritsSampleUrl(t, remote.samples[n])
                    /\ details.hashSamples[n].patchDescriptionUri =
                          _getPatchDescriptionUri("indicator", remote.samples[n]._id, t)

\* Every URI is looked at in the step that builds it: the request URIs
\* when doLookup issues the requests, the URIs of an entry when the entry
\* is pushed.
UrisBuiltAsForTwin ==
    \A k \in invs : _validateOptions(options[k]) = Null =>
        /\ (~started[k] /\ started'[k]) => RequestUrisOfTwin(k)'
        /\ \A i \in 1..Len(entities[k]) :
              Len(HitsFor(k, i)') > Len(HitsFor(k, i)) => EntryUrisOfTwin(k, i)'

\* C12: a hostname with and without its trailing slash gives the same URIs.
\* Every URI the program builds from its options (the request URIs of the
\* IP, domain, indicator and sample searches, and the detail-page URLs and
\* patch-description URIs of the entries) is the URI the same builder
\* gives for the options whose hostname differs in the trailing slash.
C12_TrailingSlashIrrelevant == [][UrisBuiltAsForTwin]_vars

\* With a hostname that does not end in a slash, a hash lookup has
\* delivered an entry holding both a sample and an
\* indicator.
C12_Witness ==
    \E k \in invs : \E i \in 1..Len(entities[k]) :
        /\ <<k, i, "hashSamples">> \in DOMAIN reqs
        /\ ~endsWith(options[k].hostname.v, "/")
        /\ Len(HitsFor(k, i)) = 1
        /\ Len(HitsFor(k, i)[1].data.details.hashSamples) > 0
        /\ Len(HitsFor(k, i)[1].data.details.hashIndicators) > 0

----------------------------------------------------------------------------
(* C13 *)

\* C13: once the host callback has been given an error together with the
\* aggregate list, that list stays as it was handed over: no lookup that
\* completes successfully after the first error adds its entries to it.
\* (cb receives the array lookupResults itself, so what the host holds is
\* lookupResults[k] as it stands.)
C13_NoEntriesAfterError ==
    \A k \in invs : \A j \in 1..Len(calls[k]) :
        (calls[k][j].err # Null /\ calls[k][j].results # Undefined) =>
            lookupResults[k] = calls[k][j].results.v

----------------------------------------------------------------------------
(* C14 *)

HashKeys == {"hashIndicators", "hashSamples"}
OtherHashKey(key) == IF key = "hashIndicators" THEN "hashSamples" ELSE "hashIndicators"

\* What the hash lookup of entity e has reported, given what its two
\* queries have returned so far.
HashReportedOnce ==
    \A e \in DOMAIN par :
        LET ind == reqs[<<e[1], e[2], "hashIndicators">>].resp
            sam == reqs[<<e[1], e[2], "hashSamples">>].resp
        IN
        /\ Len(reports[e]) <= 1
        /\ (IsSuccess(ind) /\ IsSuccess(sam)) =>
              /\ Len(reports[e]) = 1
              /\ reports[e][1].err = Null
              /\ Len(reports[e][1].results.v) = 1
        /\ (Len(reports[e]) = 1 /\ reports[e][1].err = Null) =>
              (IsSuccess(ind) /\ IsSuccess(sam))
        /\ (IsFailure(ind) \/ IsFailure(sam)) =>
              /\ Len(reports[e]) = 1
              /\ reports[e][1].err # Null
              /\ reports[e][1].results = Undefined
              /\ EntriesFor(e[1], e[2]) = <<>>

\* What the return of one query of a hash lookup makes the lookup report.
HashReportStep ==
    \A e \in DOMAIN par : \A key \in HashKeys :
        LET this == <<e[1], e[2], key>>
            other == reqs[<<e[1], e[2], OtherHashKey(key)>>].resp
        IN
        (reqs[this].resp = Pending /\ reqs'[this].resp # Pending) =>
            IF IsFailure(other)
            THEN reports'[e] = reports[e] /\ lookupResults' = lookupResults
            ELSE IF IsFailure(reqs'[this].resp)
            THEN reports'[e] =
                    <<[err |-> Classification(reqs'[this].resp), results |-> Undefined]>>
            ELSE IF other = Pending
            THEN reports'[e] = reports[e] /\ lookupResults' = lookupResults
            ELSE Len(reports'[e]) = 1 /\ reports'[e][1].err = Null

\* C14: a hash lookup reports to its caller at most once, and once when a
\* query has failed or both have returned, in every order of the two
\* returns.  When both succeed the merged result (one entry) is reported
\* at the second return, not before.  When a query fails, the lookup
\* reports the error of the first query to fail, at that return; the
\* return of the other query, failed or not, reports nothing and adds no
\* result.
C14_HashReportsOnce == []HashReportedOnce /\ [][HashReportStep]_vars

\* Both queries of a hash lookup have failed, the sample query with a
\* refused connection and the indicator query with status 401, and the
\* lookup has reported the 401.
C14_Witness ==
    \E e \in DOMAIN par :
        /\ reqs[<<e[1], e[2], "hashSamples">>].resp = Refused
        /\ reqs[<<e[1], e[2], "hashIndicators">>].resp = Unauthorized
        /\ reports[e] = <<[err |-> Str(AuthErrorMessage), results |-> Undefined]>>

----------------------------------------------------------------------------
(* C15 *)

\* The entities of invocation k that were handed to a lookup.
LookedUp(k) == {e \in DOMAIN reports : e[1] = k}

Delivered(e) == Len(reports[e]) = 1 /\ reports[e][1].err = Null

Orders(S) ==
    {f \in [1..Cardinality(S) -> S] : \A a, b \in 1..Cardinality(S) : f[a] = f[b] => a = b}

\* The result lists the lookups of the entities in `order` reported, one
\* after the other.
RECURSIVE ConcatReported(_)
ConcatReported(order) ==
    IF order = <<>> THEN <<>>
    ELSE reports[Head(order)][1].results.v \o ConcatReported(Tail(order))

\* The callback is called without error only when every lookup has
\* delivered, and then with the concatenation of what they delivered.
SuccessDeliversAll ==
    \A k \in invs : (started[k] /\ _validateOptions(options[k]) = Null) =>
        /\ \A j \in 1..Len(calls[k]) :
              calls[k][j].err = Null =>
                  /\ \A e \in LookedUp(k) : Delivered(e)
                  /\ calls[k][j].results = Arr(lookupResults[k])
        /\ (\A e \in LookedUp(k) : Delivered(e)) =>
              /\ Len(calls[k]) = 1
              /\ calls[k][1].err = Null
              /\ \E order \in Orders(LookedUp(k)) :
                    calls[k][1].results.v = ConcatReported(order)

\* A lookup that delivers puts its list at the end of the aggregate list.
DeliveryAppends ==
    \A e \in DOMAIN reports :
        (reports[e] = <<>> /\ Len(reports'[e]) = 1 /\ reports'[e][1].err = Null) =>
            lookupResults'[e[1]] = lookupResults[e[1]] \o reports'[e][1].results.v

\* C15: the host callback is called with a null error only after the lookup
\* of every applicable indicator has delivered its result list, and when
\* they all have it is called, once, with a null error and the
\* concatenation of those lists in the order the lookups completed: every
\* list whole, in its own order, none missing and none twice.
C15_SuccessIsConcatenation == []SuccessDeliversAll /\ [][DeliveryAppends]_vars

\* The callback received, without error, the entries of the second
\* indicator of the batch in front of those of the first.
C15_Witness ==
    \E k \in invs :
        /\ Len(calls[k]) = 1
        /\ calls[k][1].err = Null
        /\ Len(calls[k][1].results.v) >= 3
        /\ calls[k][1].results.v[1].entity.ref = <<k, 2>>
        /\ calls[k][1].results.v[2].entity.ref = <<k, 1>>
        /\ calls[k][1].results.v[3].entity.ref = <<k, 1>>

----------------------------------------------------------------------------
(* C16 *)

\* A batch with no applicable indicator ends within doLookup: no request,
\* one call of the callback, no error, an empty list.
NothingToLookUpEndsAtOnce ==
    \A k \in invs :
        (started[k] /\ _validateOptions(options[k]) = Null /\ LookedUp(k) = {}) =>
            /\ ReqsOf(k) = {}
            /\ calls[k] = <<HostCall(Null, Arr(<<>>))>>

\* C16: with valid options, and every issued request answered in the end,
\* every doLookup call is followed by a call of the host callback; for an
\* empty batch and for a batch with no applicable indicator the callback
\* is called by doLookup itself, with no error and an empty list, and no
\* request is issued.
C16_CallbackEventually ==
    /\ []NothingToLookUpEndsAtOnce
    /\ <>[](\A k \in invs :
               (started[k] /\ _validateOptions(options[k]) = Null) => Len(calls[k]) >= 1)

\* The callback has been called after the last of three requests, none of
\* which failed, was answered.
C16_Witness ==
    \E k \in invs :
        /\ Cardinality(ReqsOf(k)) = 3
        /\ SucceededReqs(k) = ReqsOf(k)
        /\ Len(calls[k]) = 1

----------------------------------------------------------------------------
(* C17 *)

\* The response of the request `key` can be processed now.
CanComplete(key) ==
    CASE key[3] = "ip" -> ENABLED CompleteIP(key[1], key[2])
      [] key[3] = "domain" -> ENABLED CompleteDomain(key[1], key[2])
      [] key[3] = "hashIndicators" -> ENABLED CompleteHashIndicators(key[1], key[2])
      [] key[3] = "hashSamples" -> ENABLED CompleteHashSamples(key[1], key[2])

\* From the return of doLookup on, and so before any response is
\* processed, every applicable indicator has its requests in flight or
\* answered: one, or the two of a hash lookup; and a request in flight can
\* be answered whatever has failed.
AllIssuedNoneCancelled ==
    \A k \in invs : (started[k] /\ _validateOptions(options[k]) = Null) =>
        /\ \A i \in 1..Len(entities[k]) :
              Applicable(entities[k][i], options[k]) =>
                  \/ {key[3] : key \in ReqsOfEntity(k, i)} = {"ip"}
                  \/ {key[3] : key \in ReqsOfEntity(k, i)} = {"domain"}
                  \/ {key[3] : key \in ReqsOfEntity(k, i)} = HashKeys
        /\ \A key \in ReqsOf(k) : ~IsDone(key) => CanComplete(key)

\* Processing a response leaves every other request as it is, and an IP
\* or domain response always makes its lookup report, also after the
\* batch has failed.
ResponsesIndependent ==
    \A key \in DOMAIN reqs :
        /\ key \in DOMAIN reqs'
        /\ IsDone(key) => reqs'[key] = reqs[key]
        /\ (~IsDone(key) /\ reqs'[key].resp # Pending /\ key[3] \in {"ip", "domain"}) =>
              Len(reports'[<<key[1], key[2]>>]) = Len(reports[<<key[1], key[2]>>]) + 1

\* C17: with valid options the requests of every applicable indicator (one
\* per IP or domain, two per hash) are all issued before any response is
\* processed, and none of them is cancelled or suppressed by the failure
\* of another: after an error every other request can still be answered,
\* its lookup still reports, and in the end every request of the batch
\* has been answered.
C17_AllRequestsIssuedAndRun ==
    /\ []AllIssuedNoneCancelled
    /\ [][ResponsesIndependent]_vars
    /\ <>[](\A k \in invs : started[k] => AllDone(k))

\* The callback received an error and an empty list, and a lookup of the
\* batch has delivered entries since.
C17_Witness ==
    \E k \in invs :
        /\ Len(calls[k]) = 1
        /\ calls[k][1].err # Null
        /\ calls[k][1].results = Arr(<<>>)
        /\ lookupResults[k] # <<>>
        /\ \E e \in LookedUp(k) : Delivered(e)

----------------------------------------------------------------------------
(* C18 *)

\* The kinds of request the claim's priority order gives an indicator.
KindsByPriority(e, o) ==
    IF e.isIP /\ o.lookupIps THEN {"ip"}
    ELSE IF (e.isMD5 \/ e.isSHA1 \/ e.isSHA256) /\ o.lookupHashes THEN HashKeys
    ELSE IF e.isDomain /\ o.lookupDomains THEN {"domain"}
    ELSE {}

\* C18: every indicator of a started batch is routed to at most one lookup,
\* by the priority IP (flagged an IP, IP lookups enabled), then hash
\* (flagged MD5, SHA1 or SHA256, hash lookups enabled), then domain
\* (flagged a domain, domain lookups enabled): its requests are those of
\* that one lookup, it gets one report at most, and an indicator with
\* several flags falls through to the next lookup when the option of a
\* higher one is off.
C18_RoutedByPriority ==
    \A k \in invs : (started[k] /\ _validateOptions(options[k]) = Null) =>
        \A i \in 1..Len(entities[k]) :
            /\ {key[3] : key \in ReqsOfEntity(k, i)} =
                  KindsByPriority(entities[k][i], options[k])
            /\ <<k, i>> \in DOMAIN reports <=>
                  KindsByPriority(entities[k][i], options[k]) # {}
            /\ <<k, i>> \in DOMAIN reports => Len(reports[<<k, i>>]) <= 1

\* An indicator flagged IP, SHA256 and domain, with IP lookups off and
\* hash and domain lookups on, was looked up as a hash and has delivered.
C18_Witness ==
    \E k \in invs : \E i \in 1..Len(entities[k]) :
        /\ started[k] /\ _validateOptions(options[k]) = Null
        /\ entities[k][i].isIP /\ entities[k][i].isSHA256 /\ entities[k][i].isDomain
        /\ ~options[k].lookupIps /\ options[k].lookupHashes /\ options[k].lookupDomains
        /\ {key[3] : key \in ReqsOfEntity(k, i)} = HashKeys
        /\ Delivered(<<k, i>>)

----------------------------------------------------------------------------
(* C19 *)

\* The answer of the server to a request of this kind that succeeds.
OkResponse(kind) ==
    [err |-> Null, response |-> Obj([statusCode |-> 200]),
     body |-> Obj([objects |-> remote[EndpointOf(kind)]])]

\* The entries of entity i of batch k, from the batch, the options and what
\* the server holds alone.
EntriesOf(k, i) ==
    LET e == entities[k][i]
        o == options[k]
        kinds == KindsByPriority(e, o)
    IN
    IF kinds = {"ip"} THEN _lookupIP(e, o, OkResponse("ip")).results
    ELSE IF kinds = {"domain"} THEN _lookupDomains(e, o, OkResponse("domain")).results
    ELSE IF kinds = HashKeys
    THEN _lookupHash(e, o, Null,
                     [hashIndicators |-> remote.indicators,
                      hashSamples |-> remote.samples]).results
    ELSE <<>>

RECURSIVE EntriesUpTo(_, _)
EntriesUpTo(k, n) ==
    IF n = 0 THEN <<>> ELSE EntriesUpTo(k, n - 1) \o EntriesOf(k, n)

SameMultiset(a, b) ==
    /\ Len(a) = Len(b)
    /\ \A j \in 1..Len(a) : Count(a, a[j]) = Count(b, a[j])

\* C19: when every lookup of a batch succeeds, the entries the callback
\* receives are, as a multiset, a function of the batch, the options and
\* the content of the server: the same in every order in which the
\* requests, the two of a hash lookup included, are answered.
C19_ResultMultisetOrderFree ==
    \A k \in invs : (started[k] /\ _validateOptions(options[k]) = Null) =>
        \A j \in 1..Len(calls[k]) :
            calls[k][j].err = Null =>
                SameMultiset(calls[k][j].results.v, EntriesUpTo(k, Len(entities[k])))

\* The callback received, without error, an entry of the second indicator
\* of the batch first, and an entry with data of a hash lookup.
C19_Witness ==
    \E k \in invs :
        /\ Len(calls[k]) = 1
        /\ calls[k][1].err = Null
        /\ Len(calls[k][1].results.v) >= 2
        /\ calls[k][1].results.v[1].entity.ref = <<k, 2>>
        /\ \E e \in DOMAIN par :
              /\ e[1] = k
              /\ Len(HitsFor(e[1], e[2])) = 1

----------------------------------------------------------------------------
(* C20 *)

\* What invocation k has been given and has delivered follows from its own
\* options, batch and responses.
OwnOutcome(k) ==
    LET validationResult == _validateOptions(options[k]) IN
    /\ \A j \in 1..Len(lookupResults[k]) : lookupResults[k][j].entity.ref[1] = k
    /\ \A c \in 1..Len(calls[k]) :
          calls[k][c].results # Undefined =>
              \A j \in 1..Len(calls[k][c].results.v) :
                  calls[k][c].results.v[j].entity.ref[1] = k
    /\ ~started[k] => calls[k] = <<>>
    /\ (started[k] /\ validationResult # Null) =>
          calls[k] = <<HostCall(validationResult, Undefined)>>
    /\ (started[k] /\ validationResult = Null) =>
          IF FailedReqs(k) # {}
          THEN /\ Len(calls[k]) = 1
               /\ \E key \in FailedReqs(k) :
                     calls[k][1].err = Classification(reqs[key].resp)
          ELSE IF AllDone(k)
          THEN /\ Len(calls[k]) = 1
               /\ calls[k][1].err = Null
               /\ SameMultiset(calls[k][1].results.v, EntriesUpTo(k, Len(entities[k])))
          ELSE calls[k] = <<>>

\* A step that is not the start of invocation k nor the answer to one of
\* its requests leaves what belongs to k as it is.
OthersUntouched ==
    \A k \in invs :
        (started'[k] = started[k] /\ \A key \in ReqsOf(k) : reqs'[key] = reqs[key]) =>
            /\ lookupResults'[k] = lookupResults[k]
            /\ calls'[k] = calls[k]
            /\ each'[k] = each[k]

\* C20: two doLookup calls that overlap do not interfere.  The callback of
\* each receives entries of the entities of its own batch only; whether it
\* receives an error, which one, and which entries, follows from its own
\* options, batch and responses, whatever happens to the other call; and
\* no step of one call changes the result list, the bookkeeping or the
\* callback of the other.
C20_InvocationsIsolated == [](\A k \in invs : OwnOutcome(k)) /\ [][OthersUntouched]_vars

\* Both calls have ended: the first with the error of a refused connection
\* and an empty list, the second without error and with entries.
C20_Witness ==
    /\ invs = {1, 2}
    /\ calls[1] = <<HostCall(Str("ECONNREFUSED"), Arr(<<>>))>>
    /\ Len(calls[2]) = 1
    /\ calls[2][1].err = Null
    /\ Len(calls[2][1].results.v) >= 1

====
